---- MODULE Spec2Model ----
(***************************************************************************)
(* A model of twisted-deferred/deferred-simulator.py: the Callback widgets, *)
(* the Deferred widget built from callback/errback pairs, the ascii Screen, *)
(* and FiredDeferred, which fires a twisted Deferred whose callbacks draw   *)
(* the chain on the Screen while the chain's own callbacks run.  Three      *)
(* further specifications take one part each: FiredDeferred.draw on its     *)
(* own (ExecSpec), the methods of the Screen (ScreenSpec) and the input     *)
(* loop get_pairs (InputSpec).                                              *)
(*                                                                         *)
(* Python strings are sequences of one-character strings.  Python values    *)
(* that flow through the deferred are tagged records: a str, None, or a     *)
(* twisted Failure wrapping an exception.                                   *)
(***************************************************************************)
EXTENDS Integers, Sequences, FiniteSets, TLC

VARIABLES
    pc,        \* "get_pairs" (reading the pairs), "start", "ready" (between draw
               \* calls), "running" (inside one), "drawn" (all draw calls made),
               \* "done" (printed), "failed"; "screen" for a caller of the Screen
    input,     \* the list of pairs handed to Deferred(...), the draw calls asked
               \* for, and in get_pairs the lines not yet read
    deferred,  \* the Deferred widget (pairs, callback_width, width, height), or NoWidget
    calls,     \* the FiredDeferred.draw calls still to be made, in order
    cur,       \* the FiredDeferred.draw call being executed (method, screen, x, y, result)
    d,         \* the twisted Deferred of the current call: callbacks left, current result
    state,     \* the DrawState of the current call: last_x, last_y
    screens,   \* the Screen objects: each a pixel mapping (x, y) -> char
    trace,     \* the callbacks the current call has run so far, in order; the
               \* lines get_pairs has read; the calls made on the Screen
    finished,  \* one record per completed draw call: the call, its trace, its result
    output,    \* what has been printed or rendered: the rows of the screen, the
               \* messages of get_pairs, or <<>>
    raised     \* the exception that ended the program, or "none"

vars == <<pc, input, deferred, calls, cur, d, state, screens, trace, finished,
          output, raised>>

(***************************************************************************)
(* Bounds of the model.                                                    *)
(***************************************************************************)
MaxPairs == 2

(***************************************************************************)
(* Python strings and values.                                              *)
(***************************************************************************)
s_return   == <<"r", "e", "t", "u", "r", "n">>
s_fail     == <<"f", "a", "i", "l">>
s_passthru == <<"p", "a", "s", "s", "t", "h", "r", "u">>
s_initial  == <<"i", "n", "i", "t", "i", "a", "l">>
s_Exception == <<"E", "x", "c", "e", "p", "t", "i", "o", "n">>
s_None     == <<"N", "o", "n", "e">>

Str(s) == [t |-> "str", s |-> s]
None == [t |-> "None"]

\* Exception(value): an exception instance; args is the tuple of its arguments.
Exception(value) == [type |-> "Exception", args |-> <<value>>]

\* What raising inside a callback leaves in a twisted Deferred: a Failure
\* whose .value is the exception.
Failure(exc) == [t |-> "Failure", value |-> exc]

isFailure(res) == res.t = "Failure"

\* '%s' % (v,) for the values that can be an exception argument.
str(v) == IF v.t = "str" THEN v.s ELSE s_None

Spaces(n) == [i \in 1..n |-> " "]

\* str.center(width) as CPython 2 pads: the odd space goes left only when
\* both the margin and the width are odd.
center(s, width) ==
    LET marg == width - Len(s)
        left == (marg \div 2) + ((marg % 2) * (width % 2))
    IN  IF marg <= 0 THEN s ELSE Spaces(left) \o s \o Spaces(marg - left)

Max(S) == CHOOSE m \in S : \A n \in S : n <= m

(***************************************************************************)
(* Screen: the pixel mapping and its drawing primitives.  A drawing method *)
(* is modelled by the sequence of draw_char calls <<x, y, char>> it makes; *)
(* DrawChars applies such a sequence to a pixel mapping, one draw_char at  *)
(* a time, in order.                                                       *)
(***************************************************************************)
NoPixels == [c \in {} |-> " "]

\* pixels[x, y] = char: the cell takes char, every other cell keeps its value.
draw_char(pixels, x, y, char) == (<<x, y>> :> char) @@ pixels

RECURSIVE DrawChars(_, _)
DrawChars(pixels, ws) ==
    IF ws = <<>> THEN pixels
    ELSE DrawChars(draw_char(pixels, ws[1][1], ws[1][2], ws[1][3]), Tail(ws))

Cells(ws) == {<<ws[i][1], ws[i][2]>> : i \in DOMAIN ws}

\* draw_horiz_line drawing one cell more than the width.
draw_horiz_line_inclusive(x, y, width) ==
    [i \in 1..(width + 1) |-> <<x + (i - 1), y, "-">>]

draw_horiz_line(x, y, width) ==
    [i \in 1..width |-> <<x + (i - 1), y, "-">>]

draw_vert_line(x, y, height, end_arrow) ==
    [i \in 1..height |-> <<x, y + (i - 1), "|">>]
    \o (IF end_arrow
        THEN << <<x - 1, y + height - 1, "\\">>, <<x + 1, y + height - 1, "/">> >>
        ELSE <<>>)

draw_text(x, y, text) ==
    [i \in 1..Len(text) |-> <<x + (i - 1), y, text[i]>>]

(***************************************************************************)
(* Callback: a widget for one callback or errback.                         *)
(***************************************************************************)
Callback_height == 5

StyleName(style) ==
    IF style = "return" THEN s_return
    ELSE IF style = "fail" THEN s_fail
    ELSE s_passthru

\* Callback.__repr__ of a widget with the given style and value.
repr(style, value) ==
    IF style = "passthru" THEN s_passthru
    ELSE StyleName(style) \o <<" ">> \o value.s

\* Callback.__init__
Callback(style, value) ==
    [style |-> style, value |-> value, min_width |-> Len(repr(style, value)) + 4]

\* Callback.__call__: what calling the widget with res does, either
\* returning a value or raising an exception.
Returns(v) == [raise |-> FALSE, v |-> v]
Raises(exc) == [raise |-> TRUE, exc |-> exc]

\* Callback.__call__ with a passthru widget returning its own value.
Callback_call_passthru_value(cb, res) ==
    IF cb.style = "fail" THEN Raises(Exception(cb.value)) ELSE Returns(cb.value)

\* Callback.__call__ with a fail widget returning its value, nothing raised.
Callback_call_fail_returns(cb, res) ==
    IF cb.style = "passthru" THEN Returns(res) ELSE Returns(cb.value)

Callback_call(cb, res) ==
    IF cb.style = "return" THEN Returns(cb.value)
    ELSE IF cb.style = "fail" THEN Raises(Exception(cb.value))
    ELSE Returns(res)

\* Callback.draw
Callback_draw(cb, x, y, width) ==
    draw_horiz_line(x, y, width)
    \o draw_horiz_line(x, y + 4, width)
    \o draw_vert_line(x, y + 1, 3, FALSE)
    \o draw_vert_line(x + width - 1, y + 1, 3, FALSE)
    \o draw_text(x + 1, y + 2, center(repr(cb.style, cb.value), width - 2))

(***************************************************************************)
(* Deferred: the widget for a deferred, built from a list of pairs.  A     *)
(* pair is <<callback, errback>>.                                          *)
(***************************************************************************)
NoWidget == [pairs |-> <<>>, built |-> FALSE]

\* Deferred.__init__ taking the width of the callbacks only.
Deferred_init_callbacks_only(pairs) ==
    LET cw == Max({pairs[i][1].min_width : i \in DOMAIN pairs} \cup {0})
    IN  [pairs |-> pairs,
         built |-> TRUE,
         callback_width |-> cw,
         width |-> cw * 2 + 2,
         height |-> Callback_height * Len(pairs)
                    + 3 * (IF Len(pairs) = 0 THEN 0 ELSE Len(pairs) - 1)]

\* Deferred.__init__ past its assert.
Deferred_init(pairs) ==
    LET cw0 == Max({pairs[i][1].min_width : i \in DOMAIN pairs} \cup {0})
        cw  == Max({pairs[i][2].min_width : i \in DOMAIN pairs} \cup {cw0})
    IN  [pairs |-> pairs,
         built |-> TRUE,
         callback_width |-> cw,
         width |-> cw * 2 + 2,
         height |-> Callback_height * Len(pairs)
                    + 3 * (IF Len(pairs) = 0 THEN 0 ELSE Len(pairs) - 1)]

\* Deferred.__init__ without its assert.
Deferred_assert_off(pairs) == TRUE

\* The assert at the top of Deferred.__init__: an empty list is falsy.
Deferred_assert(pairs) == pairs # <<>>

(***************************************************************************)
(* Screen.__str__: height rows of width characters, each row ended by a    *)
(* newline.                                                                *)
(***************************************************************************)
Screen_width(pixels) == Max({c[1] + 1 : c \in DOMAIN pixels} \cup {0})
Screen_height(pixels) == Max({c[2] + 1 : c \in DOMAIN pixels} \cup {0})

\* Screen.__str__ reading pixels.get((y, x)) for the place (x, y).
Screen_str_transposed(pixels) ==
    LET width == Screen_width(pixels)
        height == Screen_height(pixels)
        set == DOMAIN pixels
    IN  [r \in 1..height |->
            [k \in 1..(width + 1) |->
                IF k = width + 1 THEN "\n"
                ELSE IF <<r - 1, k - 1>> \in set THEN pixels[<<r - 1, k - 1>>]
                ELSE " "]]

Screen_str(pixels) ==
    LET width == Screen_width(pixels)
        height == Screen_height(pixels)
        set == DOMAIN pixels
    IN  [r \in 1..height |->
            [k \in 1..(width + 1) |->
                IF k = width + 1 THEN "\n"
                ELSE IF <<k - 1, r - 1>> \in set THEN pixels[<<k - 1, r - 1>>]
                ELSE " "]]

\* Screen.__str__ storing a space in every cell it reads.
str_pixels_filled(pixels) ==
    [c \in DOMAIN pixels \cup ((0..(Screen_width(pixels) - 1))
                               \X (0..(Screen_height(pixels) - 1))) |->
        IF c \in DOMAIN pixels THEN pixels[c] ELSE " "]

\* The pixel mapping after Screen.__str__: pixels.get reads, nothing is stored.
str_pixels(pixels) == pixels

(***************************************************************************)
(* FiredDeferred: a widget for a fired deferred.                           *)
(***************************************************************************)
\* FiredDeferred.__init__
FiredDeferred(dw, method) ==
    [method |-> method, height |-> dw.height + 10, width |-> dw.width]

\* The columns make_drawing_deferred computes from its arguments; / is
\* Python 2 integer division.
Columns(x, y, callback_width) ==
    [x |-> x,
     y |-> y,
     callback_width |-> callback_width,
     callback_mid_x |-> x - 1 + (callback_width \div 2),
     errback_left_x |-> x + callback_width + 2,
     errback_mid_x |-> (x + callback_width + 2) - 1 + (callback_width \div 2)]

\* DrawState(): both attributes start as None.
DrawState == [last_x |-> None, last_y |-> None]

\* Which of the three connections draw_connection(x) draws.
connection(st, x) ==
    IF st.last_x = x THEN "same"
    ELSE IF st.last_x < x THEN "right"
    ELSE "left"

\* draw_connection after state.last_x has been set to x: the two columns
\* always compare equal.
draw_connection_stale(env, st, x) ==
    draw_vert_line(x - 1 + (env.callback_width \div 2), st.last_y - 3, 3, TRUE)

\* draw_connection starting its lines one row lower, ending on the row of
\* the element below.
draw_connection_low(env, st, x) ==
    IF st.last_x = x
    THEN draw_vert_line(x - 1 + (env.callback_width \div 2), st.last_y - 2, 3, TRUE)
    ELSE (IF st.last_x < x
          THEN draw_vert_line(env.callback_mid_x, st.last_y - 2, 2, FALSE)
               \o draw_vert_line(env.errback_mid_x, st.last_y - 1, 2, TRUE)
          ELSE draw_vert_line(env.errback_mid_x, st.last_y - 2, 2, FALSE)
               \o draw_vert_line(env.callback_mid_x, st.last_y - 1, 2, TRUE))
         \o draw_horiz_line(env.callback_mid_x + 1, st.last_y - 1,
                            env.errback_mid_x - env.callback_mid_x - 1)

draw_connection(env, st, x) ==
    IF st.last_x = x
    THEN draw_vert_line(x - 1 + (env.callback_width \div 2), st.last_y - 3, 3, TRUE)
    ELSE (IF st.last_x < x
          THEN draw_vert_line(env.callback_mid_x, st.last_y - 3, 2, FALSE)
               \o draw_vert_line(env.errback_mid_x, st.last_y - 2, 2, TRUE)
          ELSE draw_vert_line(env.errback_mid_x, st.last_y - 3, 2, FALSE)
               \o draw_vert_line(env.callback_mid_x, st.last_y - 2, 2, TRUE))
         \o draw_horiz_line(env.callback_mid_x + 1, st.last_y - 2,
                            env.errback_mid_x - env.callback_mid_x - 1)

\* draw_value raises AttributeError when res is neither a Failure nor a str
\* (None has no center method).
draw_value_raises(res) == ~isFailure(res) /\ res.t # "str"

AttributeError == [type |-> "AttributeError", args |-> <<Str(<<"c", "e", "n", "t", "e", "r">>)>>]

\* draw_value writing the bare message of a Failure.
value_text_bare(env, res) ==
    IF isFailure(res)
    THEN center(str(res.value.args[1]), env.callback_width + 20)
    ELSE center(res.s, env.callback_width)

\* The text draw_value writes for res.
value_text(env, res) ==
    IF isFailure(res)
    THEN center(s_Exception \o <<"(">> \o str(res.value.args[1]) \o <<")">>,
                env.callback_width + 20)
    ELSE center(res.s, env.callback_width)

draw_value(env, res, y) ==
    IF isFailure(res)
    THEN draw_text(env.errback_left_x - 10, y, value_text(env, res))
    ELSE draw_text(env.x, y, value_text(env, res))

\* draw_start and draw_end taking the column of the callbacks whatever the
\* result.
result_column_left(env, res) == env.x

\* The column draw_start and draw_end take for a result.
result_column(env, res) == IF isFailure(res) THEN env.errback_left_x ELSE env.x

\* The DrawState moving down by the height of the widget only.
moved_no_gap(st, x) == [last_x |-> x, last_y |-> st.last_y + Callback_height]

\* The DrawState after callback(res) has drawn the widget at column x:
\* state.last_x = x and state.last_y += cb.height + 3.
moved(st, x) == [last_x |-> x, last_y |-> st.last_y + Callback_height + 3]

\* wrap_callback(cb, x): the function added to the twisted Deferred.
wrap_callback(cb, x, i, side) == [kind |-> "callback", cb |-> cb, x |-> x, i |-> i, side |-> side]

\* d.addBoth(f) and d.addCallbacks(callback, errback): one entry of the
\* twisted Deferred's callback list.
addBoth(f) == [callback |-> f, errback |-> f]
addCallbacks(callback, errback) == [callback |-> callback, errback |-> errback]

\* make_drawing_deferred looping over pairs[1:].
make_drawing_deferred_skip(dw, env) ==
    <<addBoth([kind |-> "draw_start"])>>
    \o [j \in 1..(Len(dw.pairs) - 1) |->
          addCallbacks(wrap_callback(dw.pairs[j + 1][1], env.x, j + 1, "callback"),
                       wrap_callback(dw.pairs[j + 1][2], env.errback_left_x, j + 1,
                                     "errback"))]
    \o <<addBoth([kind |-> "draw_end"])>>

\* make_drawing_deferred adding the pairs last to first.
make_drawing_deferred_reversed(dw, env) ==
    <<addBoth([kind |-> "draw_start"])>>
    \o [j \in 1..Len(dw.pairs) |->
          LET i == Len(dw.pairs) + 1 - j
          IN  addCallbacks(wrap_callback(dw.pairs[i][1], env.x, i, "callback"),
                           wrap_callback(dw.pairs[i][2], env.errback_left_x, i,
                                         "errback"))]
    \o <<addBoth([kind |-> "draw_end"])>>

\* The callback list make_drawing_deferred builds.
make_drawing_deferred(dw, env) ==
    <<addBoth([kind |-> "draw_start"])>>
    \o [i \in 1..Len(dw.pairs) |->
          addCallbacks(wrap_callback(dw.pairs[i][1], env.x, i, "callback"),
                       wrap_callback(dw.pairs[i][2], env.errback_left_x, i, "errback"))]
    \o <<addBoth([kind |-> "draw_end"])>>

\* The result FiredDeferred.draw fires the deferred with.
fired_result(method, result) ==
    IF method = "callback" THEN Str(result) ELSE Failure(Exception(Str(result)))

\* A deferred that runs the callback for a Failure and the errback otherwise.
Pick_swapped(entry, result) == IF isFailure(result) THEN entry.callback ELSE entry.errback

\* A wrapper that catches the exception and returns its message.
Outcome_message(call) == IF call.raise THEN call.exc.args[1] ELSE call.v

\* A wrapper that calls the widget without returning what it returns.
Outcome_none(call) == IF call.raise THEN Failure(call.exc) ELSE None

\* twisted's Deferred: the function of an entry that runs for a result, and
\* the result a callback leaves (a raised exception becomes a Failure).
Pick(entry, result) == IF isFailure(result) THEN entry.errback ELSE entry.callback

Outcome(call) == IF call.raise THEN Failure(call.exc) ELSE call.v

(***************************************************************************)
(* Inputs: the pairs get_pairs can return.  get_cb builds a return or fail *)
(* widget with a non-empty word as value and a passthru widget with none.  *)
(***************************************************************************)
Return(v) == Callback("return", Str(v))
Fail(v) == Callback("fail", Str(v))
Passthru == Callback("passthru", None)

Handlers == {Return(<<"a">>), Fail(<<"b", "b">>), Passthru}

Pairs == Handlers \X Handlers

Chains == UNION {[1..n -> Pairs] : n \in 1..MaxPairs}

\* Single pairs of widgets with a longer value, which make wider boxes.
s_long == <<"a", "b", "c", "d", "e", "f">>
WideChains == {<<p>> : p \in {Return(s_long), Fail(s_long), Passthru}
                             \X {Return(s_long), Fail(s_long), Passthru}}

(***************************************************************************)
(* The program.                                                            *)
(***************************************************************************)
NoCall == [method |-> "none"]
NoDeferred == [callbacks |-> <<>>, result |-> None]

\* The columns of the draw call being executed.
Env == Columns(cur.x, cur.y, deferred.callback_width)

Start ==
    /\ pc = "start"
    /\ deferred = NoWidget
    /\ calls = <<>>
    /\ cur = NoCall
    /\ d = NoDeferred
    /\ state = DrawState
    /\ screens = <<>>
    /\ trace = <<>>
    /\ finished = <<>>
    /\ output = <<>>
    /\ raised = "none"

\* The state of main() after get_pairs has returned a list of pairs.
Init ==
    /\ input \in {[pairs |-> ch] : ch \in Chains \cup WideChains}
    /\ Start

\* Deferred(pairs): the widget, or the AssertionError of its assert.
NewDeferred(pairs) ==
    IF Deferred_assert(pairs)
    THEN /\ deferred' = Deferred_init(pairs)
         /\ raised' = raised
         /\ pc' = "ready"
    ELSE /\ deferred' = deferred
         /\ raised' = "AssertionError"
         /\ pc' = "failed"

\* main() drawing the errback-fired deferred right after the first one.
main_errback_x_nogap(width) == width

\* The x at which main() draws the errback-fired deferred.
main_errback_x(width) == width + 12

\* main(), from Deferred(get_pairs()) to Screen(): the two draw calls that
\* follow are queued.
Main ==
    /\ pc = "start"
    /\ NewDeferred(input.pairs)
    /\ calls' = IF Deferred_assert(input.pairs)
                THEN << [method |-> "callback", screen |-> 1, x |-> 0, y |-> 0,
                         result |-> s_initial],
                        [method |-> "errback", screen |-> 1,
                         x |-> main_errback_x(Deferred_init(input.pairs).width),
                         y |-> 0, result |-> s_initial] >>
                ELSE calls
    /\ screens' = IF Deferred_assert(input.pairs) THEN <<NoPixels>> ELSE screens
    /\ UNCHANGED <<input, cur, d, state, trace, finished, output>>

\* FiredDeferred.draw up to the firing of the deferred: make_drawing_deferred
\* has created a fresh DrawState and a twisted Deferred with the callbacks
\* given, and d.callback / d.errback sets its result.
DrawWith(callbacks) ==
    /\ cur' = Head(calls)
    /\ calls' = Tail(calls)
    /\ state' = DrawState
    /\ d' = [callbacks |-> callbacks,
             result |-> fired_result(Head(calls).method, Head(calls).result)]
    /\ trace' = <<>>
    /\ pc' = "running"
    /\ UNCHANGED <<input, deferred, screens, finished, output, raised>>

\* A draw call is still to be made.
CanDraw == pc = "ready" /\ calls # <<>>

\* FiredDeferred.draw adding the pairs in the order of an unordered
\* collection, any order.
Draw_unordered ==
    /\ CanDraw
    /\ \E order \in Permutations(DOMAIN deferred.pairs) :
          DrawWith(make_drawing_deferred(
              [deferred EXCEPT !.pairs = [i \in DOMAIN deferred.pairs |->
                                             deferred.pairs[order[i]]]],
              Columns(Head(calls).x, Head(calls).y, deferred.callback_width)))

Draw ==
    /\ CanDraw
    /\ DrawWith(make_drawing_deferred(deferred,
            Columns(Head(calls).x, Head(calls).y, deferred.callback_width)))

\* The twisted Deferred of the current call has callbacks left, and the next
\* function to run is of the given kind.
CanRun(kind) ==
    /\ pc = "running"
    /\ d.callbacks # <<>>
    /\ Pick(Head(d.callbacks), d.result).kind = kind

\* One callback of the twisted Deferred has run: it made the draw_char calls
\* entry.ws and left the result entry.result.
Ran(entry) ==
    /\ screens' = [screens EXCEPT ![cur.screen] = DrawChars(@, entry.ws)]
    /\ d' = [callbacks |-> Tail(d.callbacks), result |-> entry.result]
    /\ trace' = Append(trace, entry)

\* draw_start(res)
RunDrawStart ==
    /\ CanRun("draw_start")
    /\ IF draw_value_raises(d.result)
       THEN /\ Ran([kind |-> "draw_start", arg |-> d.result, ws |-> <<>>,
                    result |-> Failure(AttributeError)])
            /\ state' = state
       ELSE /\ Ran([kind |-> "draw_start", arg |-> d.result,
                    ws |-> draw_value(Env, d.result, cur.y), result |-> d.result])
            /\ state' = [last_x |-> result_column(Env, d.result), last_y |-> cur.y + 4]
    /\ UNCHANGED <<pc, input, deferred, calls, cur, finished, output, raised>>

\* callback(res) of wrap_callback(cb, x): draws the widget and the
\* connection into it, moves the DrawState, then calls the widget.
RunCallback ==
    /\ CanRun("callback")
    /\ LET f == Pick(Head(d.callbacks), d.result)
           call == Callback_call(f.cb, d.result)
       IN  /\ Ran([kind |-> "callback", arg |-> d.result,
                   ws |-> Callback_draw(f.cb, f.x, state.last_y, Env.callback_width)
                          \o draw_connection(Env, state, f.x),
                   result |-> Outcome(call),
                   i |-> f.i, side |-> f.side, cb |-> f.cb, x |-> f.x,
                   y |-> state.last_y, connection |-> connection(state, f.x),
                   call |-> call])
           /\ state' = moved(state, f.x)
    /\ UNCHANGED <<pc, input, deferred, calls, cur, finished, output, raised>>

\* draw_end(res): the last callback; it returns None.  FiredDeferred.draw
\* then returns to its caller.
RunDrawEnd ==
    /\ CanRun("draw_end")
    /\ LET raises == draw_value_raises(d.result)
           entry == [kind |-> "draw_end", arg |-> d.result,
                     ws |-> IF raises THEN <<>>
                            ELSE draw_value(Env, d.result, state.last_y)
                                 \o draw_connection(Env, state,
                                                    result_column(Env, d.result)),
                     result |-> IF raises THEN Failure(AttributeError) ELSE None,
                     y |-> state.last_y,
                     connection |-> IF raises THEN "none"
                                    ELSE connection(state, result_column(Env, d.result))]
       IN  /\ Ran(entry)
           /\ finished' = Append(finished,
                  [call |-> cur, trace |-> Append(trace, entry), result |-> entry.result])
    /\ pc' = IF calls = <<>> THEN "drawn" ELSE "ready"
    /\ UNCHANGED <<input, deferred, calls, cur, state, output, raised>>

\* print screen, the last statement of main().
PrintScreen ==
    /\ pc = "drawn"
    /\ output' = Screen_str(screens[1])
    /\ pc' = "done"
    /\ UNCHANGED <<input, deferred, calls, cur, d, state, screens, trace, finished,
                   raised>>

Next == Main \/ Draw \/ RunDrawStart \/ RunCallback \/ RunDrawEnd \/ PrintScreen

Spec == Init /\ [][Next]_vars

(***************************************************************************)
(* The executor on its own: a caller builds Deferred(pairs) and a          *)
(* FiredDeferred for one method, and calls draw(screen, x, y, result)      *)
(* twice, each time on a fresh Screen.  The pairs may be any list, the     *)
(* empty one included; the chains of the examples are among them.          *)
(***************************************************************************)
s_go == <<"g", "o">>
s_e0 == <<"e", "0">>
s_ok == <<"o", "k">>
s_boom == <<"b", "o", "o", "m">>

ExampleAB == << <<Return(<<"a">>), Fail(<<"b">>)>> >>
ExampleOk == << <<Return(s_ok), Passthru>> >>
ExampleBoom == << <<Fail(s_boom), Passthru>> >>
ExampleXY == << <<Passthru, Passthru>>, <<Return(<<"x">>), Fail(<<"y">>)>> >>
ExampleSwitch == << <<Fail(s_boom), Passthru>>, <<Passthru, Return(s_ok)>> >>

Scenarios ==
    {[pairs |-> ch, method |-> m, result |-> s_initial, x |-> 0, y |-> 0] :
        ch \in Chains \cup {<<>>, ExampleAB}, m \in {"callback", "errback"}}
    \cup {[pairs |-> ExampleOk, method |-> "callback", result |-> s_go,
           x |-> 0, y |-> 0],
          [pairs |-> ExampleBoom, method |-> "callback", result |-> s_go,
           x |-> 0, y |-> 0],
          [pairs |-> ExampleXY, method |-> "errback", result |-> s_e0,
           x |-> 0, y |-> 0],
          [pairs |-> ExampleSwitch, method |-> "callback", result |-> s_go,
           x |-> 2, y |-> 3],
          [pairs |-> ExampleAB, method |-> "callback", result |-> s_go,
           x |-> 5, y |-> 1]}

ExecInit ==
    /\ input \in Scenarios
    /\ Start

FireTwice ==
    /\ pc = "start"
    /\ NewDeferred(input.pairs)
    /\ calls' = IF Deferred_assert(input.pairs)
                THEN << [method |-> input.method, screen |-> 1, x |-> input.x,
                         y |-> input.y, result |-> input.result],
                        [method |-> input.method, screen |-> 2, x |-> input.x,
                         y |-> input.y, result |-> input.result] >>
                ELSE calls
    /\ screens' = IF Deferred_assert(input.pairs) THEN <<NoPixels, NoPixels>>
                  ELSE screens
    /\ UNCHANGED <<input, cur, d, state, trace, finished, output>>

ExecNext == FireTwice \/ Draw \/ RunDrawStart \/ RunCallback \/ RunDrawEnd

ExecSpec == ExecInit /\ [][ExecNext]_vars

(***************************************************************************)
(* get_pairs: the loop that reads the pairs from standard input, one line  *)
(* per pair.  A line is the string raw_input() returns, a sequence of      *)
(* characters; input.lines are the lines still to be read and input.pairs  *)
(* is the list the loop appends to and returns.  trace records the lines   *)
(* read, output the messages printed.                                      *)
(***************************************************************************)
MaxLines == 3

\* str.lower() on the letters the lines are made of.
lower(word) ==
    [i \in DOMAIN word |->
        IF word[i] = "R" THEN "r"
        ELSE IF word[i] = "F" THEN "f"
        ELSE IF word[i] = "P" THEN "p"
        ELSE word[i]]

\* command.startswith(cmd)
startswith(command, cmd) ==
    /\ Len(cmd) <= Len(command)
    /\ SubSeq(command, 1, Len(cmd)) = cmd

\* line.strip().split(): the maximal runs of characters other than spaces.
RECURSIVE split(_)
split(line) ==
    IF line = <<>> THEN <<>>
    ELSE IF Head(line) = " " THEN split(Tail(line))
    ELSE LET spaces == {i \in DOMAIN line : line[i] = " "}
             n == IF spaces = {} THEN Len(line)
                  ELSE (CHOOSE i \in spaces : \A j \in spaces : i <= j) - 1
         IN  <<SubSeq(line, 1, n)>> \o split(SubSeq(line, n + 1, Len(line)))

\* The commands in the order the loop of get_cb tries them.
Commands == <<"return", "fail", "passthru">>

BadInput(msg) == [ok |-> FALSE, msg |-> msg]

\* get_cb() on the parts left: the widget and the parts left after it, or
\* the BadInput it raises.
get_cb(parts) ==
    IF parts = <<>> THEN BadInput("missing command")
    ELSE LET cmd == lower(Head(parts))
             rest == Tail(parts)
             found == {j \in DOMAIN Commands : startswith(StyleName(Commands[j]), cmd)}
         IN  IF found = {} THEN BadInput("bad command")
             ELSE LET command == Commands[CHOOSE j \in found : \A k \in found : j <= k]
                  IN  IF command \in {"return", "fail"}
                      THEN IF rest = <<>> THEN BadInput("missing argument")
                           ELSE [ok |-> TRUE,
                                 cb |-> Callback(command, Str(Head(rest))),
                                 parts |-> Tail(rest)]
                      ELSE [ok |-> TRUE, cb |-> Callback(command, None), parts |-> rest]

\* get_next_pair() reading the line: None, a pair, or the BadInput raised.
get_next_pair(line) ==
    IF line = <<>> THEN [kind |-> "None"]
    ELSE LET callback == get_cb(split(line))
         IN  IF ~callback.ok THEN [kind |-> "BadInput", msg |-> callback.msg]
             ELSE LET errback == get_cb(callback.parts)
                  IN  IF ~errback.ok THEN [kind |-> "BadInput", msg |-> errback.msg]
                      ELSE IF errback.parts # <<>>
                      THEN [kind |-> "BadInput", msg |-> "extra arguments"]
                      ELSE [kind |-> "pair", pair |-> <<callback.cb, errback.cb>>]

\* The loop of get_pairs breaking at any blank line.
get_pairs_breaks_at_blank(pair, pairs) == pair.kind = "None"

\* The loop of get_pairs breaks: pair is None and pairs is not empty.
get_pairs_breaks(pair, pairs) == pair.kind = "None" /\ pairs # <<>>

\* The lines a user types.
l_blank == <<>>
l_spaces == <<" ", " ">>
l_r_a_f_b == <<"r", " ", "a", " ", "f", " ", "b">>
l_P_p == <<" ", "P", " ", " ", "p", " ">>
l_fa_x_re_y == <<"f", "a", " ", "x", " ", "r", "e", " ", "y">>
l_r_a == <<"r", " ", "a">>
l_f == <<"f">>
l_x_a_p == <<"x", " ", "a", " ", "p">>
l_p_p_p == <<"p", " ", "p", " ", "p">>

InputLines ==
    {l_blank, l_spaces, l_r_a_f_b, l_P_p, l_fa_x_re_y, l_r_a, l_f, l_x_a_p, l_p_p_p}

InputInit ==
    /\ pc = "get_pairs"
    /\ input \in {[pairs |-> <<>>, lines |-> ls] :
                    ls \in UNION {[1..n -> InputLines] : n \in 0..MaxLines}}
    /\ deferred = NoWidget
    /\ calls = <<>>
    /\ cur = NoCall
    /\ d = NoDeferred
    /\ state = DrawState
    /\ screens = <<>>
    /\ trace = <<>>
    /\ finished = <<>>
    /\ output = <<>>
    /\ raised = "none"

\* One turn of the while loop of get_pairs, reading one line; when the loop
\* breaks get_pairs returns input.pairs to main().
GetPairsLoop ==
    /\ pc = "get_pairs"
    /\ input.lines # <<>>
    /\ LET line == Head(input.lines)
           pair == get_next_pair(line)
           pairs == IF pair.kind = "pair" THEN Append(input.pairs, pair.pair)
                    ELSE input.pairs
       IN  /\ input' = [pairs |-> pairs, lines |-> Tail(input.lines)]
           /\ output' = IF pair.kind = "BadInput"
                        THEN Append(output, <<"ERROR:", pair.msg>>)
                        ELSE IF pair.kind = "None" /\ input.pairs = <<>>
                        THEN Append(output, <<"You must enter at least one pair.">>)
                        ELSE output
           /\ pc' = IF get_pairs_breaks(pair, input.pairs) THEN "start" ELSE pc
           /\ trace' = Append(trace, [kind |-> "get_next_pair", line |-> line,
                                      pair |-> pair, before |-> input.pairs,
                                      after |-> pairs])
    /\ UNCHANGED <<deferred, calls, cur, d, state, screens, finished, raised>>

\* raw_input() at the end of the input raises EOFError, which nothing
\* catches.
GetPairsEOF ==
    /\ pc = "get_pairs"
    /\ input.lines = <<>>
    /\ pc' = "failed"
    /\ raised' = "EOFError"
    /\ UNCHANGED <<input, deferred, calls, cur, d, state, screens, trace, finished,
                   output>>

InputNext == GetPairsLoop \/ GetPairsEOF

InputSpec == InputInit /\ [][InputNext]_vars

(***************************************************************************)
(* The Screen on its own: a caller constructs Screen() and calls its       *)
(* drawing methods and str() on it, in any order, at most MaxCalls times.  *)
(* trace records the calls made.                                           *)
(***************************************************************************)
MaxCalls == 3

\* The places the caller draws at, negative coordinates included.
Origins == {<<-2, -2>>, <<-1, 0>>, <<0, 1>>, <<1, 0>>}
Lengths == {0, 2}
s_ab == <<"a", "b">>

ScreenInit ==
    /\ pc = "screen"
    /\ input = [pairs |-> <<>>]
    /\ deferred = NoWidget
    /\ calls = <<>>
    /\ cur = NoCall
    /\ d = NoDeferred
    /\ state = DrawState
    /\ screens = <<NoPixels>>
    /\ trace = <<>>
    /\ finished = <<>>
    /\ output = <<>>
    /\ raised = "none"

\* A drawing method of the Screen has made the draw_char calls entry.ws.
Drew(entry) ==
    /\ pc = "screen"
    /\ Len(trace) < MaxCalls
    /\ screens' = <<DrawChars(screens[1], entry.ws)>>
    /\ trace' = Append(trace, entry)
    /\ UNCHANGED <<pc, input, deferred, calls, cur, d, state, finished, output, raised>>

Screen_draw_char ==
    \E o \in Origins :
        Drew([kind |-> "draw_char", x |-> o[1], y |-> o[2], n |-> 1,
              ws |-> << <<o[1], o[2], "a">> >>])

Screen_draw_horiz_line ==
    \E o \in Origins, width \in Lengths :
        Drew([kind |-> "draw_horiz_line", x |-> o[1], y |-> o[2], n |-> width,
              ws |-> draw_horiz_line(o[1], o[2], width)])

Screen_draw_vert_line ==
    \E o \in Origins, height \in Lengths \ {0}, end_arrow \in BOOLEAN :
        Drew([kind |-> "draw_vert_line", x |-> o[1], y |-> o[2], n |-> height,
              ws |-> draw_vert_line(o[1], o[2], height, end_arrow)])

Screen_draw_text ==
    \E o \in Origins :
        Drew([kind |-> "draw_text", x |-> o[1], y |-> o[2], n |-> Len(s_ab),
              ws |-> draw_text(o[1], o[2], s_ab)])

\* str(screen)
Screen_print ==
    /\ pc = "screen"
    /\ Len(trace) < MaxCalls
    /\ output' = Screen_str(screens[1])
    /\ screens' = <<str_pixels(screens[1])>>
    /\ trace' = Append(trace, [kind |-> "str", x |-> 0, y |-> 0, n |-> 0, ws |-> <<>>])
    /\ UNCHANGED <<pc, input, deferred, calls, cur, d, state, finished, raised>>

ScreenNext ==
    \/ Screen_draw_char \/ Screen_draw_horiz_line \/ Screen_draw_vert_line
    \/ Screen_draw_text \/ Screen_print

ScreenSpec == ScreenInit /\ [][ScreenNext]_vars

(***************************************************************************)
(* Properties.                                                             *)
(***************************************************************************)
\* The traces of the draw calls made so far: the completed ones and the
\* one being executed.
AllTraces == {trace} \cup {finished[r].trace : r \in DOMAIN finished}

\* The positions of a trace at which a widget of the chain was called.
Fired(tr) == {k \in DOMAIN tr : tr[k].kind = "callback"}

\* The result left by the last widget called in a completed trace.
Produced(tr) == tr[Len(tr) - 1].result

\* C1: in every draw call the widgets fire in chain order, and the widget
\* that fires for a pair is the pair's callback when the result it receives
\* is not a Failure and the pair's errback when it is; the single pair
\* (return a, fail b) fired with errback produces the failure b and fired
\* with callback produces the plain value a.
SelectsByTrack ==
    /\ \A tr \in AllTraces : \A k \in Fired(tr) :
          /\ tr[k].i = k - 1
          /\ tr[k].side = (IF isFailure(tr[k].arg) THEN "errback" ELSE "callback")
          /\ tr[k].cb = deferred.pairs[tr[k].i][IF isFailure(tr[k].arg) THEN 2 ELSE 1]
    /\ \A r \in DOMAIN finished :
          deferred.pairs = ExampleAB =>
              Produced(finished[r].trace) =
                  (IF finished[r].call.method = "errback"
                   THEN Failure(Exception(Str(<<"b">>)))
                   ELSE Str(<<"a">>))

SelectsByTrack_witness ==
    /\ pc = "drawn"
    /\ deferred.pairs = ExampleAB
    /\ finished[2].call.method = "errback"
    /\ finished[2].trace[2].side = "errback"
    /\ Produced(finished[2].trace) = Failure(Exception(Str(<<"b">>)))

\* C2: the step in which a widget fires leaves the deferred's result as
\* follows: the Failure of the exception if the widget raised, the value if
\* it returned a plain value, and for a passthru widget exactly the result
\* there was before, Failure or not.
TrackUpdate ==
    [][ (pc = "running" /\ d.callbacks # <<>>
         /\ Pick(Head(d.callbacks), d.result).kind = "callback")
        => LET e == trace'[Len(trace')]
           IN  /\ e.kind = "callback"
               /\ e.call.raise =>
                     /\ isFailure(d'.result)
                     /\ d'.result.value = e.call.exc
               /\ (~e.call.raise /\ ~isFailure(e.call.v)) =>
                     /\ ~isFailure(d'.result)
                     /\ d'.result = e.call.v
               /\ e.cb.style = "passthru" => d'.result = d.result
               /\ e.cb.style = "fail" => isFailure(d'.result)
               /\ e.cb.style = "return" => d'.result = e.cb.value ]_vars

TrackUpdate_witness ==
    /\ pc = "running"
    /\ Len(trace) = 3
    /\ trace[2].cb.style = "fail" /\ ~isFailure(trace[2].arg)
    /\ trace[3].cb.style = "passthru" /\ isFailure(trace[3].arg)
    /\ d.result = trace[3].arg

\* C3: a completed draw call has fired exactly one widget of each pair, so
\* as many widgets as there are pairs, whatever the results were; a call in
\* progress has fired none twice.
OneFiringPerPair ==
    /\ \A r \in DOMAIN finished :
          LET tr == finished[r].trace
          IN  /\ Cardinality(Fired(tr)) = Len(deferred.pairs)
              /\ \A i \in DOMAIN deferred.pairs :
                    Cardinality({k \in Fired(tr) : tr[k].i = i}) = 1
    /\ \A i \in DOMAIN deferred.pairs :
          Cardinality({k \in Fired(trace) : trace[k].i = i}) <= 1

OneFiringPerPair_witness ==
    /\ pc = "drawn"
    /\ Len(deferred.pairs) = 2
    /\ finished[1].trace[2].side = "callback"
    /\ finished[1].trace[3].side = "errback"
    /\ Cardinality(Fired(finished[1].trace)) = 2

\* C4: when a fail widget with value v fires, the result it leaves is a
\* Failure with message v; if its pair is not the last, the next callback
\* to run is the errback of the next pair and it receives that Failure; if
\* its pair is the last, draw_end receives that Failure.
NoFailureDropped ==
    /\ \A tr \in AllTraces : \A k \in Fired(tr) :
          tr[k].cb.style = "fail" =>
              /\ isFailure(tr[k].result)
              /\ tr[k].result.value.args[1] = tr[k].cb.value
              /\ (k + 1) \in DOMAIN tr =>
                    /\ tr[k + 1].arg = tr[k].result
                    /\ IF tr[k].i < Len(deferred.pairs)
                       THEN /\ tr[k + 1].kind = "callback"
                            /\ tr[k + 1].side = "errback"
                            /\ tr[k + 1].i = tr[k].i + 1
                            /\ tr[k + 1].cb = deferred.pairs[tr[k].i + 1][2]
                       ELSE tr[k + 1].kind = "draw_end"
    /\ \A r \in DOMAIN finished :
          finished[r].trace[Len(finished[r].trace)].kind = "draw_end"
    /\ (pc = "running" /\ Len(trace) > 1 /\ trace[Len(trace)].kind = "callback"
        /\ trace[Len(trace)].cb.style = "fail") =>
          d.result = Failure(Exception(trace[Len(trace)].cb.value))

NoFailureDropped_witness ==
    /\ pc = "drawn"
    /\ Len(deferred.pairs) = 2
    /\ LET tr == finished[1].trace
       IN  /\ tr[2].cb.style = "fail" /\ tr[2].side = "callback"
           /\ tr[3].side = "errback" /\ tr[3].cb.style = "fail"
           /\ tr[4].kind = "draw_end" /\ isFailure(tr[4].arg)

\* C5: calling a widget with any res, plain or Failure: a return widget
\* returns its value, a plain value; a fail widget raises an exception whose
\* argument is its value; a passthru widget returns res itself.
CallbackApply ==
    \A tr \in AllTraces : \A k \in Fired(tr) :
        LET e == tr[k]
        IN  /\ e.cb.style = "return" =>
                  e.call = [raise |-> FALSE, v |-> e.cb.value] /\ e.cb.value.t = "str"
            /\ e.cb.style = "fail" =>
                  e.call.raise /\ e.call.exc.args = <<e.cb.value>>
            /\ e.cb.style = "passthru" =>
                  ~e.call.raise /\ e.call.v = e.arg

CallbackApply_witness ==
    /\ Len(trace) = 3
    /\ trace[2].cb.style = "passthru" /\ isFailure(trace[2].arg)
    /\ trace[2].call.v = trace[2].arg
    /\ trace[3].kind = "callback"
    /\ trace[3].cb.style = "return" /\ isFailure(trace[3].arg)
    /\ trace[3].call.v = Str(<<"a">>)

\* The text on a row of a rendered screen, without its padding.
Unpadded(row) == SelectSeq(row, LAMBDA c : c \notin {" ", "\n"})

\* What draw_end is to show for a result.
Shown(res) ==
    IF isFailure(res)
    THEN s_Exception \o <<"(">> \o res.value.args[1].s \o <<")">>
    ELSE res.s

\* The text of the final value on the screen of completed call r.
FinalText(r) ==
    LET tr == finished[r].trace
    IN  Unpadded(Screen_str(screens[finished[r].call.screen])[tr[Len(tr)].y + 1])

\* C6: the value drawn at the end of a draw call is the result left by the
\* widget of the last pair, as Exception(<message>) exactly when that
\* result is a Failure and as the plain value otherwise; the three example
\* chains end with ok, Exception(boom) and Exception(y).
FinalValueDrawn ==
    /\ \A r \in DOMAIN finished :
          LET tr == finished[r].trace
          IN  /\ tr[Len(tr)].kind = "draw_end"
              /\ tr[Len(tr)].arg = Produced(tr)
              /\ FinalText(r) = Shown(Produced(tr))
    /\ (finished # <<>> /\ input.pairs = ExampleOk) => FinalText(1) = s_ok
    /\ (finished # <<>> /\ input.pairs = ExampleBoom) =>
          FinalText(1) = s_Exception \o <<"(">> \o s_boom \o <<")">>
    /\ (finished # <<>> /\ input.pairs = ExampleXY) =>
          FinalText(1) = s_Exception \o <<"(", "y", ")">>

FinalValueDrawn_witness ==
    /\ pc = "drawn"
    /\ input.pairs = ExampleXY
    /\ finished[1].trace[2].arg = Failure(Exception(Str(s_e0)))
    /\ finished[1].trace[3].arg = Failure(Exception(Str(s_e0)))
    /\ FinalText(2) = s_Exception \o <<"(", "y", ")">>

\* The cells a trace has written.
CellsOf(tr) == UNION {Cells(tr[k].ws) : k \in DOMAIN tr}

\* The cells draw call r of the program has written so far.
Written(r) ==
    IF r <= Len(finished) THEN CellsOf(finished[r].trace)
    ELSE IF r = Len(finished) + 1 /\ pc = "running" THEN CellsOf(trace)
    ELSE {}

\* C7: in main() the callback-fired drawing at x = 0 and the errback-fired
\* drawing at x = d.width + 12 write no cell in common, the padding of the
\* value texts and the arrow cells of the connections included.
RunsDisjoint == Written(1) \cap Written(2) = {}

RunsDisjoint_witness ==
    /\ pc = "done"
    /\ Len(finished) = 2
    /\ isFailure(Produced(finished[1].trace))
    /\ ~isFailure(Produced(finished[2].trace))
    /\ Written(1) # {} /\ Written(2) # {}

\* No callback of a drawing deferred has raised anything but the exception
\* of a fail widget, and no draw call has left a Failure in its deferred.
NoRunError ==
    /\ raised = "none"
    /\ \A tr \in AllTraces : \A k \in DOMAIN tr :
          isFailure(tr[k].result) => tr[k].result.value.type = "Exception"
    /\ \A r \in DOMAIN finished : finished[r].result = None

\* Every draw call asked for has run to its draw_end over all the pairs.
AllDrawn ==
    /\ pc = "drawn"
    /\ Len(finished) = 2
    /\ \A r \in DOMAIN finished :
          LET tr == finished[r].trace
          IN  /\ Len(tr) = Len(deferred.pairs) + 2
              /\ tr[Len(tr)].kind = "draw_end"
              /\ tr[Len(tr)].ws # <<>>

\* The steps left: the callbacks left in the deferred of the current call,
\* and for each call still to be made its callbacks and the call itself.
Work ==
    IF pc = "start" THEN 2 * (Len(input.pairs) + 3) + 1
    ELSE Len(calls) * (Len(input.pairs) + 3)
         + (IF pc = "running" THEN Len(d.callbacks) ELSE 0)

\* Some step of the executor can be taken.
CanStep ==
    \/ pc = "start"
    \/ CanDraw
    \/ CanRun("draw_start") \/ CanRun("callback") \/ CanRun("draw_end")

\* C8: given a non-empty list of pairs and either method, every draw call
\* reaches its end: no error state is reached, a step can be taken until
\* every call has processed each pair and drawn its end, and every step
\* takes one from the finite number of steps left.
RunsToEnd ==
    /\ [](input.pairs # <<>> =>
            /\ NoRunError
            /\ IF pc = "drawn" THEN AllDrawn ELSE CanStep)
    /\ [][input.pairs # <<>> => (Work' < Work /\ Work' >= 0)]_vars

RunsToEnd_witness ==
    /\ AllDrawn
    /\ NoRunError
    /\ Len(deferred.pairs) = 2
    /\ finished[1].call.method = "errback"

NoEmptyChain ==
    /\ deferred.built => deferred.pairs # <<>>
    /\ (pc # "start" /\ input.pairs = <<>>) =>
          /\ pc = "failed"
          /\ raised = "AssertionError"
          /\ ~deferred.built
          /\ calls = <<>> /\ finished = <<>> /\ screens = <<>>
    /\ raised # "none" => input.pairs = <<>>

NoEmptyChain_witness ==
    /\ pc = "failed"
    /\ input.pairs = <<>>
    /\ raised = "AssertionError"

\* The widgets of a Deferred widget, callbacks and errbacks alike.
Widgets(dw) == {dw.pairs[i][j] : i \in DOMAIN dw.pairs, j \in 1..2}

\* C11: the min_width of every widget is the length of its repr plus 4,
\* and the callback_width of a Deferred is at least the min_width of each
\* of its callbacks and errbacks and is the min_width of one of them.
WidthCoversWidgets ==
    deferred.built =>
        /\ \A w \in Widgets(deferred) :
              /\ w.min_width = Len(repr(w.style, w.value)) + 4
              /\ deferred.callback_width >= w.min_width
        /\ \E w \in Widgets(deferred) : deferred.callback_width = w.min_width

WidthCoversWidgets_witness ==
    /\ deferred.built
    /\ Len(deferred.pairs) = 2
    /\ \E i \in DOMAIN deferred.pairs :
          /\ deferred.callback_width = deferred.pairs[i][2].min_width
          /\ \A k \in DOMAIN deferred.pairs :
                deferred.pairs[k][1].min_width < deferred.callback_width

(***************************************************************************)
(* Properties of the Screen.                                               *)
(***************************************************************************)
\* str(screen) was the last call made.
JustPrinted == trace # <<>> /\ trace[Len(trace)].kind = "str"

\* The largest x + 1 and the largest y + 1 over the set cells, 0 when no
\* cell is set.
LargestX1(pixels) ==
    IF DOMAIN pixels = {} THEN 0 ELSE Max({c[1] + 1 : c \in DOMAIN pixels})
LargestY1(pixels) ==
    IF DOMAIN pixels = {} THEN 0 ELSE Max({c[2] + 1 : c \in DOMAIN pixels})

\* The characters of the rendered text other than the spaces and the
\* newlines, each with its column and row.
Visible(text) ==
    {<<k - 1, r - 1, text[r][k]>> : <<r, k>> \in
        {rk \in (DOMAIN text) \X (1..(Max({Len(text[r]) : r \in DOMAIN text} \cup {0}))) :
            /\ rk[2] <= Len(text[rk[1]])
            /\ text[rk[1]][rk[2]] \notin {" ", "\n"}}}

\* The rendered text has height rows of width characters (and a newline
\* after each); every set cell within them shows its character and every
\* other place a space; what shows is exactly the set cells at
\* non-negative coordinates.
RendersAs(text, pixels, width, height) ==
    /\ Len(text) = height
    /\ \A r \in DOMAIN text :
          /\ Len(text[r]) = width + 1
          /\ text[r][width + 1] = "\n"
          /\ \A k \in 1..width :
                text[r][k] = (IF <<k - 1, r - 1>> \in DOMAIN pixels
                              THEN pixels[<<k - 1, r - 1>>] ELSE " ")
    /\ Visible(text) = {<<c[1], c[2], pixels[c]>> : c \in
                          {c \in DOMAIN pixels : c[1] >= 0 /\ c[2] >= 0 /\ pixels[c] # " "}}

\* Every draw_char call made so far is stored, at negative coordinates too.
AllStored ==
    \A k \in DOMAIN trace : \A i \in DOMAIN trace[k].ws :
        <<trace[k].ws[i][1], trace[k].ws[i][2]>> \in DOMAIN screens[1]

\* C12 as stated: str(screen) yields largest y + 1 rows of largest x + 1
\* characters (0 for the empty screen), set cells at non-negative
\* coordinates at their place, spaces elsewhere, cells at negative
\* coordinates stored and not shown.
RenderSize_stated ==
    /\ AllStored
    /\ JustPrinted =>
          RendersAs(output, screens[1], LargestX1(screens[1]), LargestY1(screens[1]))

\* C12: str(screen) yields height rows of width characters, where width is
\* the largest x + 1 over the set cells or 0 if that is negative or no cell
\* is set, and height likewise for y; set cells at non-negative
\* coordinates are at their row and column, every other place is a space,
\* and cells at negative coordinates are stored and not shown.
RenderSize ==
    /\ AllStored
    /\ JustPrinted =>
          RendersAs(output, screens[1],
                    IF LargestX1(screens[1]) < 0 THEN 0 ELSE LargestX1(screens[1]),
                    IF LargestY1(screens[1]) < 0 THEN 0 ELSE LargestY1(screens[1]))

\* A screen whose only cells are left of column -1 has been rendered.
RenderSize_witness ==
    /\ JustPrinted
    /\ DOMAIN screens[1] # {}
    /\ LargestX1(screens[1]) < 0
    /\ output = <<>>

LineCells(x, y, width) == {<<x + i, y>> : i \in 0..(width - 1)}

\* C14: draw_horiz_line(x, y, width) sets the width cells (x, y) ..
\* (x + width - 1, y) to '-' and leaves every other cell as it was; made on
\* an empty screen with x, y >= 0 and followed by str(screen), row y of the
\* text has '-' at the columns x .. x + width - 1 and spaces before them,
\* and nothing is shown anywhere else.
HorizLine ==
    /\ [](/\ Len(trace) = 2
          /\ trace[1].kind = "draw_horiz_line"
          /\ trace[1].x >= 0 /\ trace[1].y >= 0
          /\ trace[2].kind = "str"
          => LET x == trace[1].x
                 y == trace[1].y
                 width == trace[1].n
             IN  /\ Visible(output) = {<<c[1], c[2], "-">> : c \in LineCells(x, y, width)}
                 /\ width > 0 =>
                       /\ Len(output) > y
                       /\ SubSeq(output[y + 1], 1, Len(output[y + 1]) - 1)
                            = Spaces(x) \o [i \in 1..width |-> "-"])
    /\ [][(Len(trace') = Len(trace) + 1
           /\ trace'[Len(trace')].kind = "draw_horiz_line") =>
             LET e == trace'[Len(trace')]
                 line == LineCells(e.x, e.y, e.n)
             IN  /\ DOMAIN screens'[1] = DOMAIN screens[1] \cup line
                 /\ \A c \in DOMAIN screens'[1] :
                       screens'[1][c] = (IF c \in line THEN "-" ELSE screens[1][c])]_vars

HorizLine_witness ==
    /\ Len(trace) = 2
    /\ trace[1].kind = "draw_horiz_line"
    /\ trace[1].x = 1 /\ trace[1].y = 0 /\ trace[1].n = 2
    /\ trace[2].kind = "str"
    /\ output = << <<" ", "-", "-", "\n">> >>

(***************************************************************************)
(* Properties of the drawing of one run: a run is one draw call, with the  *)
(* steps (trace entries) it has made so far.                               *)
(***************************************************************************)
Runs ==
    {[call |-> finished[r].call, trace |-> finished[r].trace] : r \in DOMAIN finished}
    \cup (IF pc = "running" THEN {[call |-> cur, trace |-> trace]} ELSE {})

\* The left column of the callbacks and of the errbacks in a run.
SuccessColumn(run) == run.call.x
FailureColumn(run) == run.call.x + deferred.callback_width + 2

\* The column of step k of a run: the column of the widget that fired, or
\* for draw_start and draw_end the column of the track of the result.
StepColumn(run, k) ==
    LET e == run.trace[k]
    IN  IF e.kind = "callback" THEN e.x
        ELSE IF isFailure(e.arg) THEN FailureColumn(run) ELSE SuccessColumn(run)

\* The rows of the element step k draws: the one row of a value text, the
\* five rows of a box.
ElementRows(run, k) ==
    LET e == run.trace[k]
    IN  IF e.kind = "draw_start" THEN {run.call.y}
        ELSE IF e.kind = "callback" THEN e.y .. (e.y + 4)
        ELSE {e.y}

Draws(e) == {e.ws[i] : i \in DOMAIN e.ws}

\* What step k draws outside the rows of its element: its connector.
Connector(run, k) ==
    {w \in Draws(run.trace[k]) : w[2] \notin ElementRows(run, k)}

\* The middle of the box at a column.
MidOf(col) == col - 1 + (deferred.callback_width \div 2)

\* One vertical line of three cells ending in an arrow, above row y.
Continuation(col, y) ==
    {<<MidOf(col), y - 3, "|">>, <<MidOf(col), y - 2, "|">>, <<MidOf(col), y - 1, "|">>,
     <<MidOf(col) - 1, y - 1, "\\">>, <<MidOf(col) + 1, y - 1, "/">>}

\* Two vertical segments, the second ending in an arrow in the destination
\* column, joined by a horizontal line between the two columns.
Switch(from, to, y) ==
    {<<MidOf(from), y - 3, "|">>, <<MidOf(from), y - 2, "|">>,
     <<MidOf(to), y - 2, "|">>, <<MidOf(to), y - 1, "|">>,
     <<MidOf(to) - 1, y - 1, "\\">>, <<MidOf(to) + 1, y - 1, "/">>}
    \cup {<<c, y - 2, "-">> : c \in
            (IF from < to THEN (MidOf(from) + 1)..(MidOf(to) - 1)
             ELSE (MidOf(to) + 1)..(MidOf(from) - 1))}

\* C15: the connector of every step after draw_start is the continuation
\* variant when the column of the step equals the column of the step
\* before it, and the switch variant from that column to the step's own
\* when the two differ.
ConnectorVariant ==
    \A run \in Runs : \A k \in 2..Len(run.trace) :
        Connector(run, k) =
            (IF StepColumn(run, k) = StepColumn(run, k - 1)
             THEN Continuation(StepColumn(run, k), run.trace[k].y)
             ELSE Switch(StepColumn(run, k - 1), StepColumn(run, k), run.trace[k].y))

\* A completed run that stayed in its column, switched to the errbacks and
\* switched back for its end.
ConnectorVariant_witness ==
    /\ pc = "drawn"
    /\ Len(finished[1].trace) = 4
    /\ finished[1].trace[2].connection = "same"
    /\ finished[1].trace[3].connection = "right"
    /\ finished[1].trace[4].connection = "left"
    /\ Connector([call |-> finished[1].call, trace |-> finished[1].trace], 4)
          = Switch(deferred.callback_width + 2, 0, finished[1].trace[4].y)

\* The completed runs.
CompletedRuns ==
    {[call |-> finished[r].call, trace |-> finished[r].trace] : r \in DOMAIN finished}

\* The steps of a run that drew a connector.
Connecting(run) == {k \in DOMAIN run.trace : Connector(run, k) # {}}

\* The end arrows among the draw_char calls of a set.
Arrows(ws) == {w \in ws : w[3] = "\\"}

\* C16: a completed run over n pairs has drawn exactly n + 1 connectors,
\* none at draw_start, one ending right above the box of each of the n
\* widgets that fired and one ending right above the final value; the
\* connector into the first box is the continuation variant, whichever
\* method fired the deferred.
ConnectorCount ==
    /\ \A run \in CompletedRuns :
          LET n == Len(deferred.pairs)
          IN  /\ Cardinality(Connecting(run)) = n + 1
              /\ Connecting(run) = 2..(n + 2)
              /\ \A k \in 2..(n + 1) : run.trace[k].kind = "callback"
              /\ run.trace[n + 2].kind = "draw_end"
              /\ \A k \in Connecting(run) :
                    /\ Cardinality(Arrows(Connector(run, k))) = 1
                    /\ \A w \in Arrows(Connector(run, k)) : w[2] = run.trace[k].y - 1
              /\ Cardinality(Arrows(UNION {Draws(run.trace[k]) : k \in DOMAIN run.trace}))
                    = n + 1
    /\ \A run \in Runs :
          Len(run.trace) >= 2 =>
              Connector(run, 2) = Continuation(StepColumn(run, 2), run.trace[2].y)

\* A single pair fired with errback: the two connectors are the one into
\* the errback and the one to the end.
ConnectorCount_witness ==
    /\ pc = "drawn"
    /\ Len(deferred.pairs) = 1
    /\ finished[1].call.method = "errback"
    /\ Len(finished[1].trace) = 3
    /\ finished[1].trace[2].side = "errback"
    /\ finished[1].trace[2].connection = "same"
    /\ finished[1].trace[3].connection # "none"

\* The cells of one horizontal border of a box: callback_width dashes from
\* the column on the row.
Border(col, row) ==
    {<<c, row, "-">> : c \in col..(col + deferred.callback_width - 1)}

\* C17: in a run with origin row y the box of the k-th widget that fires
\* (k from 0) has its top border on row y + 4 + 8k and its bottom border four
\* rows below, in the column of the callbacks if the callback of the pair
\* fired and in the column of the errbacks if the errback did; the final
\* value is drawn on row y + 4 + 8n for n pairs; and while the run lasts
\* state.last_y is y + 4 plus 8 for every widget that has fired.
RowAdvance ==
    /\ \A run \in Runs : \A j \in DOMAIN run.trace :
          LET e == run.trace[j]
              k == j - 2
              top == run.call.y + 4 + 8 * k
              col == IF e.side = "callback" THEN SuccessColumn(run)
                     ELSE FailureColumn(run)
          IN  /\ e.kind = "callback" =>
                    /\ Border(col, top) \subseteq Draws(e)
                    /\ Border(col, top + 4) \subseteq Draws(e)
                    /\ \A w \in Draws(e) :
                          /\ w[2] \in (top - 3)..(top + 4)
                          /\ w[2] >= top => w[1] \in col..(col + deferred.callback_width - 1)
              /\ e.kind = "draw_end" =>
                    /\ \E w \in Draws(e) : w[2] = run.call.y + 4 + 8 * Len(deferred.pairs)
                    /\ \A w \in Draws(e) :
                          /\ w[2] <= run.call.y + 4 + 8 * Len(deferred.pairs)
                          /\ w[2] >= run.call.y + 1 + 8 * Len(deferred.pairs)
                          /\ w[3] \notin {"|", "\\", "/", "-"} =>
                                w[2] = run.call.y + 4 + 8 * Len(deferred.pairs)
    /\ (pc = "running" /\ trace # <<>>) =>
          state.last_y = cur.y + 4 + 8 * Cardinality(Fired(trace))

\* A run from row 3 over two pairs, a callback and then an errback firing:
\* boxes on rows 7 and 15 in different columns, the final value on row 23.
RowAdvance_witness ==
    /\ pc = "drawn"
    /\ finished[1].call.y = 3
    /\ Len(finished[1].trace) = 4
    /\ finished[1].trace[2].side = "callback"
    /\ finished[1].trace[3].side = "errback"
    /\ finished[1].trace[3].y = 15
    /\ finished[1].trace[4].y = 23

\* C18: the steps of a run come in chain order: the first step is
\* draw_start and no other is; step i + 1 is one widget of pair i, its
\* callback or its errback; draw_end comes only after the widget of the
\* last pair; and a run only ever adds a step after the steps it has made.
ChainOrder ==
    /\ [](\A run \in Runs :
            LET n == Len(deferred.pairs)
            IN  /\ Len(run.trace) <= n + 2
                /\ \A k \in DOMAIN run.trace :
                      LET e == run.trace[k]
                      IN  /\ (e.kind = "draw_start") <=> (k = 1)
                          /\ (e.kind = "draw_end") <=> (k = n + 2)
                          /\ (e.kind = "callback") <=> (k \in 2..(n + 1))
                          /\ e.kind = "callback" =>
                                /\ e.i = k - 1
                                /\ e.cb \in {deferred.pairs[k - 1][1],
                                             deferred.pairs[k - 1][2]}
                                /\ e.cb = deferred.pairs[k - 1]
                                             [IF e.side = "callback" THEN 1 ELSE 2])
    /\ [][(pc = "running" /\ trace' # trace) =>
             /\ Len(trace') = Len(trace) + 1
             /\ SubSeq(trace', 1, Len(trace)) = trace]_vars

\* A run over two different pairs that has fired both and has draw_end left.
ChainOrder_witness ==
    /\ pc = "running"
    /\ Len(deferred.pairs) = 2
    /\ deferred.pairs[1] # deferred.pairs[2]
    /\ Len(trace) = 3
    /\ trace[2].i = 1 /\ trace[3].i = 2
    /\ Len(d.callbacks) = 1

\* The draw_char calls of a run, and the cell of one.
RunDraws(run) == UNION {Draws(run.trace[k]) : k \in DOMAIN run.trace}
CellOf(w) == <<w[1], w[2]>>

\* What step k draws on the rows of its element: the value text or the box.
Element(run, k) == Draws(run.trace[k]) \ Connector(run, k)

\* C20: within a run no cell is given two different characters, and no
\* step draws on a cell an earlier step drew on; every connector lies on
\* the three rows right above the box or the final value of its step, and
\* no cell of a connector is a cell of a box or of a value text; every cell
\* written lies in the rows y .. y + FiredDeferred.height - 1.
NoOverdraw ==
    \A run \in Runs :
        /\ Cardinality({CellOf(w) : w \in RunDraws(run)}) = Cardinality(RunDraws(run))
        /\ \A j \in DOMAIN run.trace, k \in DOMAIN run.trace :
              j < k => Cells(run.trace[j].ws) \cap Cells(run.trace[k].ws) = {}
        /\ \A k \in DOMAIN run.trace :
              /\ \A w \in Connector(run, k) :
                    w[2] \in (run.trace[k].y - 3)..(run.trace[k].y - 1)
              /\ \A j \in DOMAIN run.trace :
                    {CellOf(w) : w \in Connector(run, k)}
                        \cap {CellOf(w) : w \in Element(run, j)} = {}
        /\ \A w \in RunDraws(run) :
              w[2] \in run.call.y ..
                       (run.call.y + FiredDeferred(deferred, run.call.method).height - 1)

\* A completed run from row 3 over two pairs with a switch of column: its
\* last row written is the row of the final value, two rows above the last
\* row of the FiredDeferred.
NoOverdraw_witness ==
    /\ pc = "drawn"
    /\ Len(deferred.pairs) = 2
    /\ finished[1].call.y = 3
    /\ \E k \in 2..4 : finished[1].trace[k].connection \in {"left", "right"}
    /\ \E w \in Draws(finished[1].trace[4]) :
          w[2] = 3 + FiredDeferred(deferred, finished[1].call.method).height - 3

(***************************************************************************)
(* Properties of get_pairs.                                                *)
(***************************************************************************)
\* get_pairs has returned.
Returned == pc = "start"

Accepted(e) == e.pair.kind = "pair"

\* The pairs of the lines accepted so far, in the order of the lines.
AcceptedPairs ==
    LET lines == SelectSeq(trace, Accepted)
    IN  [i \in DOMAIN lines |-> lines[i].pair.pair]

\* C19: get_pairs returns only a non-empty list; an empty line read while
\* no pair has been accepted does not end the loop and one read after a
\* pair has been accepted ends it; a line that raises BadInput does not end
\* the loop and leaves the list as it was; the list is the pairs of the
\* accepted lines in the order they were read.
InputLoop ==
    /\ Returned => input.pairs # <<>>
    /\ input.pairs = AcceptedPairs
    /\ \A k \in DOMAIN trace :
          LET e == trace[k]
              ended == k = Len(trace) /\ Returned
          IN  /\ e.before = (IF k = 1 THEN <<>> ELSE trace[k - 1].after)
              /\ (e.line = <<>> /\ e.before = <<>>) => (~ended /\ e.after = e.before)
              /\ (e.line = <<>> /\ e.before # <<>>) => (ended /\ e.after = e.before)
              /\ e.pair.kind = "BadInput" => (~ended /\ e.after = e.before)
              /\ Accepted(e) => (~ended /\ e.after = Append(e.before, e.pair.pair))
    /\ (trace # <<>> /\ pc = "get_pairs") => input.pairs = trace[Len(trace)].after

\* An empty line, the line "fa x re y", an empty line: the loop went on
\* after the first, and returned the one pair (fail x, return y) at the
\* third.
InputLoop_witness ==
    /\ Returned
    /\ Len(trace) = 3
    /\ trace[1].line = <<>>
    /\ trace[2].line = l_fa_x_re_y
    /\ trace[3].line = <<>>
    /\ input.pairs = << <<Fail(<<"x">>), Return(<<"y">>)>> >>
    /\ output = << <<"You must enter at least one pair.">> >>

====
